---- MODULE Spec2Model ----
(***************************************************************************)
(* Model of the Exchange Controller of Literary Muse (src/src/App.tsx).    *)
(*                                                                         *)
(* A useState cell is updated by its setter; a handler reads the constant  *)
(* that the render which created it destructured from the cell.  The model *)
(* keeps both: state_messages, state_input and state_isLoading are the     *)
(* cells, input and isLoading are the constants captured by the current    *)
(* handleSubmit closure, and Render copies the cells into the closure.     *)
(* Strings are sequences of characters.                                    *)
(*                                                                         *)
(* A setter does not render: React renders later, in a step of its own, so *)
(* a handler can run again on the closure of the previous render.  Every   *)
(* handler is modelled by its own code alone; the disabled attributes of   *)
(* the textarea and of the button, which stop a user's events but not      *)
(* dispatched ones, are not guards of the handlers.                        *)
(***************************************************************************)
EXTENDS Integers, Sequences, FiniteSets, TLC

\* ---------------------------------------------------------------- bounds
\* accepted submissions per behaviour
MaxSubmits == 2

\* ------------------------------------------------------------ characters
\* the characters String.prototype.trim strips, among those the model uses
Whitespace == {" ", "\n"}

\* ------------------------------------------------------- string literals
ERROR_PREFIX == <<"E", "r", "r", "o", "r", ":", " ">>
NO_RESPONSE == <<"N", "o", " ", "r", "e", "s", "p", "o", "n", "s", "e", " ", "g", "e", "n", "e", "r", "a", "t", "e", "d">>
TOKEN_MISSING_MESSAGE == <<"P", "l", "e", "a", "s", "e", " ", "s", "e", "t", " ", "y", "o", "u", "r", " ", "H", "u", "g", "g", "i", "n", "g", " ", "F", "a", "c", "e", " ", "A", "P", "I", " ", "t", "o", "k", "e", "n", " ", "i", "n", " ", "t", "h", "e", " ", ".", "e", "n", "v", " ", "f", "i", "l", "e">>
FAILED_TO_GET_RESPONSE == <<"F", "a", "i", "l", "e", "d", " ", "t", "o", " ", "g", "e", "t", " ", "r", "e", "s", "p", "o", "n", "s", "e">>
PLACEHOLDER_TOKEN == <<"y", "o", "u", "r", "_", "t", "o", "k", "e", "n", "_", "h", "e", "r", "e">>
VALID_TOKEN == <<"h", "f", "_", "x">>
SERVICE_UNAVAILABLE == <<"S", "e", "r", "v", "i", "c", "e", " ", "u", "n", "a", "v", "a", "i", "l", "a", "b", "l", "e">>
TYPE_ERROR_MESSAGE == <<"C", "a", "n", "n", "o", "t", " ", "r", "e", "a", "d", " ", "p", "r", "o", "p", "e", "r", "t", "i", "e", "s", " ", "o", "f", " ", "u", "n", "d", "e", "f", "i", "n", "e", "d", " ", "(", "r", "e", "a", "d", "i", "n", "g", " ", "'", "g", "e", "n", "e", "r", "a", "t", "e", "d", "_", "t", "e", "x", "t", "'", ")">>
MODEL_ID == <<"D", "o", "m", "v", "e", "r", "3", "4", "5", "/", "l", "i", "g", "h", "t", "n", "o", "v", "e", "l", "_", "a", "i", "_", "p", "r", "o", "t", "o">>
STORY == <<"O", "n", "c", "e">>

\* --------------------------------------------------- generation parameters
MAX_NEW_TOKENS == 500
\* temperature 0.7 and top_p 0.95, in hundredths
TEMPERATURE_PERCENT == 70
TOP_P_PERCENT == 95

\* JavaScript values that the code inspects: a tag and, for a string, its text.
JsString(s) == [t |-> "string", v |-> s]
JsUndefined == [t |-> "undefined", v |-> <<>>]
JsNumber == [t |-> "number", v |-> <<>>]

\* values of import.meta.env.VITE_HUGGINGFACE_API_TOKEN
Tokens == {JsUndefined, JsString(<<>>), JsString(PLACEHOLDER_TOKEN), JsString(VALID_TOKEN)}

\* values of e.target.value that the textarea delivers
Inputs == {<<>>, <<" ">>, <<" ", "a", " ">>, <<"b">>}

\* what hf.chatCompletion can settle with
Results ==
    {[t |-> "object", generated_text |-> g] :
        g \in {JsString(STORY), JsString(<<>>), JsUndefined, JsNumber}}
    \cup {[t |-> "undefined", generated_text |-> JsUndefined]}
\* what the promise can reject with: an Error with a message, or another value
Errors ==
    {[isError |-> TRUE, message |-> SERVICE_UNAVAILABLE],
     [isError |-> FALSE, message |-> <<>>]}
\* the message of the TypeError thrown by result.generated_text (the engine's text)
TypeErrorMessages == {TYPE_ERROR_MESSAGE}
NoResult == [t |-> "undefined", generated_text |-> JsUndefined]
NoError == [isError |-> FALSE, message |-> <<>>]
\* a settlement: the call resolves with a result (reading a field of an absent
\* result throws the engine's TypeError), or rejects with an error
Outcomes ==
    {[kind |-> "resolve", result |-> r, error |-> NoError] : r \in Results \ {NoResult}}
    \cup {[kind |-> "resolve", result |-> NoResult,
           error |-> [isError |-> TRUE, message |-> m]] : m \in TypeErrorMessages}
    \cup {[kind |-> "reject", result |-> NoResult, error |-> e] : e \in Errors}

\* the settlement field of a step that resumes no call
NoOutcome == [kind |-> "none", result |-> NoResult, error |-> NoError]

VARIABLES
    apiToken,         \* the credential read when the component renders
    state_messages,   \* useState cell: the transcript
    state_input,      \* useState cell: the text of the textarea
    state_isLoading,  \* useState cell: the request lifecycle flag
    input,            \* the input constant the current closure captured
    isLoading,        \* the isLoading constant the current closure captured
    calls,            \* the hf.chatCompletion calls that have not settled
    replies,          \* per accepted submission, the assistant entries appended for it
    started,          \* the number of hf.chatCompletion calls made so far
    last              \* the step just taken

vars == <<apiToken, state_messages, state_input, state_isLoading, input, isLoading,
          calls, replies, started, last>>

\* ------------------------------------------------------- pure operations
RECURSIVE TrimStart(_)
TrimStart(s) ==
    IF s # <<>> /\ Head(s) \in Whitespace THEN TrimStart(Tail(s)) ELSE s

RECURSIVE TrimEnd(_)
TrimEnd(s) ==
    IF s # <<>> /\ s[Len(s)] \in Whitespace
    THEN TrimEnd(SubSeq(s, 1, Len(s) - 1)) ELSE s

\* String.prototype.trim
Trim(s) == TrimEnd(TrimStart(s))

\* !x for a value that is undefined or a string
Falsy(x) == x.t = "undefined" \/ (x.t = "string" /\ x.v = <<>>)

Message(role, content) == [role |-> role, content |-> content]

\* the guard without the trim: a whitespace-only input passes
Rejected_NoTrim(in, loading) == in = <<>> \/ loading

\* the guard of handleSubmit: TRUE when the handler returns at once
Rejected(in, loading) == Trim(in) = <<>> \/ loading

\* the credential test without the placeholder
TokenUnset_NoPlaceholder(tok) == Falsy(tok)

\* the credential test at the top of the try block
TokenUnset(tok) == Falsy(tok) \/ tok = JsString(PLACEHOLDER_TOKEN)

\* the text taken by truthiness: an empty string counts as missing
assistantMessage_Truthy(result) ==
    IF result.generated_text.t = "string" /\ result.generated_text.v # <<>>
    THEN result.generated_text.v ELSE NO_RESPONSE

\* the text taken without the typeof test
assistantMessage_NoFallback(result) == result.generated_text.v

\* the text taken from a result object
assistantMessage(result) ==
    IF result.generated_text.t = "string" THEN result.generated_text.v ELSE NO_RESPONSE

\* the catch block without the instanceof test
CatchContent_AlwaysMessage(error) == ERROR_PREFIX \o error.message

\* the catch block with a fixed text
CatchContent_NoMessage(error) == ERROR_PREFIX \o FAILED_TO_GET_RESPONSE

\* the content of the entry the catch block appends
CatchContent(error) ==
    ERROR_PREFIX \o (IF error.isError THEN error.message ELSE FAILED_TO_GET_RESPONSE)

\* the content of the assistant entry that a settlement of the call appends:
\* result.generated_text of an undefined result throws a TypeError into the catch
SettledContent(o) ==
    IF o.kind = "reject" THEN CatchContent(o.error)
    ELSE IF o.result.t = "undefined" THEN CatchContent(o.error)
    ELSE assistantMessage(o.result)

\* the request with the transcript sent as context
Request_WithHistory(userMessage) == Append(state_messages, Message("user", userMessage))

\* the request handed to hf.chatCompletion
Request(userMessage) == <<Message("user", userMessage)>>

\* the parameters handed to hf.chatCompletion
Parameters ==
    [max_new_tokens |-> MAX_NEW_TOKENS, temperature |-> TEMPERATURE_PERCENT,
     top_p |-> TOP_P_PERCENT]

\* the call made for accepted submission `id`
ChatCompletion(id, userMessage) ==
    [id |-> id, model |-> MODEL_ID, messages |-> Request(userMessage),
     parameters |-> Parameters]

\* ----------------------------------------------------- the rendered form
\* the busy indicator is part of the output
busyIndicatorShown == isLoading

\* the disabled attribute of the textarea
textareaDisabled == isLoading

\* the disabled attribute without the trim
submitDisabled_NoTrim == input = <<>> \/ isLoading

\* the disabled attribute of the submit button
submitDisabled == Trim(input) = <<>> \/ isLoading

\* the record of a step: the handler, whether it accepted a submission, the
\* settlement it resumed from, and the state_isLoading cell when it began
Step(op, accepted, outcome) ==
    [op |-> op, accepted |-> accepted, outcome |-> outcome, wasLoading |-> state_isLoading]

\* ------------------------------------------------------------- the state
Init ==
    /\ apiToken \in Tokens
    /\ state_messages = <<>>
    /\ state_input = <<>>
    /\ state_isLoading = FALSE
    /\ input = <<>>
    /\ isLoading = FALSE
    /\ calls = {}
    /\ replies = <<>>
    /\ started = 0
    /\ last = [op |-> "init", accepted |-> FALSE, outcome |-> NoOutcome, wasLoading |-> FALSE]

\* handleSubmit up to its await (or to its end when no call is started)
handleSubmit(op) ==
    /\ IF Rejected(input, isLoading)
       THEN /\ UNCHANGED <<state_messages, state_input, state_isLoading, calls, replies,
                           started>>
            /\ last' = Step(op, FALSE, NoOutcome)
       ELSE /\ Len(replies) < MaxSubmits
            /\ LET userMessage == Trim(input)
                   withUser == Append(state_messages, Message("user", userMessage))
                   id == Len(replies) + 1
               IN  /\ state_input' = <<>>
                   /\ IF TokenUnset(apiToken)
                      THEN /\ state_messages' = Append(withUser,
                                  Message("assistant",
                                      CatchContent([isError |-> TRUE,
                                                    message |-> TOKEN_MISSING_MESSAGE])))
                           /\ state_isLoading' = FALSE
                           /\ calls' = calls
                           /\ started' = started
                           /\ replies' = Append(replies, 1)
                      ELSE /\ state_messages' = withUser
                           /\ state_isLoading' = TRUE
                           /\ calls' = calls \cup {ChatCompletion(id, userMessage)}
                           /\ started' = started + 1
                           /\ replies' = Append(replies, 0)
                   /\ last' = Step(op, TRUE, NoOutcome)
    /\ UNCHANGED <<apiToken, input, isLoading>>

\* the form's onSubmit
Submit == handleSubmit("submit")

\* the name of a key press in the record of a step
KeyName(key, shiftKey) ==
    IF key = "Enter" THEN (IF shiftKey THEN "shiftEnter" ELSE "enter") ELSE "key"

\* a key press that aborts the calls in flight
KeyDown_Cancels ==
    \E key \in {"Enter", "a"}, shiftKey \in BOOLEAN :
        IF key = "Enter" /\ ~shiftKey
        THEN handleSubmit(KeyName(key, shiftKey))
        ELSE /\ last' = Step(KeyName(key, shiftKey), FALSE, NoOutcome)
             /\ calls' = {}
             /\ state_isLoading' = FALSE
             /\ replies' = [i \in 1..Len(replies) |-> 1]
             /\ UNCHANGED <<apiToken, state_messages, state_input, input, isLoading, started>>

\* the textarea's onKeyDown
KeyDown ==
    \E key \in {"Enter", "a"}, shiftKey \in BOOLEAN :
        IF key = "Enter" /\ ~shiftKey
        THEN handleSubmit(KeyName(key, shiftKey))
        ELSE /\ last' = Step(KeyName(key, shiftKey), FALSE, NoOutcome)
             /\ UNCHANGED <<apiToken, state_messages, state_input, state_isLoading,
                            input, isLoading, calls, replies, started>>

\* the textarea's onChange, for the values of e.target.value in `values`
EditTo(values) ==
    \E value \in values :
        /\ state_input' = value
        /\ last' = Step("edit", FALSE, NoOutcome)
        /\ UNCHANGED <<apiToken, state_messages, state_isLoading, input, isLoading,
                       calls, replies, started>>

Edit == EditTo(Inputs)

\* the flag reset at the end of the try block instead of in finally
Resume_NoFinally(c, o) ==
    /\ state_messages' = Append(state_messages, Message("assistant", SettledContent(o)))
    /\ state_isLoading' = IF o.kind = "reject" \/ o.result.t = "undefined"
                          THEN state_isLoading ELSE FALSE
    /\ calls' = calls \ {c}
    /\ replies' = [replies EXCEPT ![c.id] = @ + 1]
    /\ last' = Step("settle", FALSE, o)
    /\ UNCHANGED <<apiToken, state_input, input, isLoading, started>>

\* the reply written over the last entry instead of appended
Resume_Overwrite(c, o) ==
    /\ state_messages' = [state_messages EXCEPT ![Len(state_messages)] =
                              Message("assistant", SettledContent(o))]
    /\ state_isLoading' = FALSE
    /\ calls' = calls \ {c}
    /\ replies' = [replies EXCEPT ![c.id] = @ + 1]
    /\ last' = Step("settle", FALSE, o)
    /\ UNCHANGED <<apiToken, state_input, input, isLoading, started>>

\* the input cleared again when the call settles
Resume_ClearsInput(c, o) ==
    /\ state_messages' = Append(state_messages, Message("assistant", SettledContent(o)))
    /\ state_isLoading' = FALSE
    /\ state_input' = <<>>
    /\ calls' = calls \ {c}
    /\ replies' = [replies EXCEPT ![c.id] = @ + 1]
    /\ last' = Step("settle", FALSE, o)
    /\ UNCHANGED <<apiToken, input, isLoading, started>>

\* a rejected call made again, once, instead of reported
Resume_Retry(c, o) ==
    IF o.kind = "reject" /\ started <= Len(replies)
    THEN /\ started' = started + 1
         /\ last' = Step("settle", FALSE, o)
         /\ UNCHANGED <<apiToken, state_messages, state_input, state_isLoading, input,
                        isLoading, calls, replies>>
    ELSE /\ state_messages' = Append(state_messages, Message("assistant", SettledContent(o)))
         /\ state_isLoading' = FALSE
         /\ calls' = calls \ {c}
         /\ replies' = [replies EXCEPT ![c.id] = @ + 1]
         /\ last' = Step("settle", FALSE, o)
         /\ UNCHANGED <<apiToken, state_input, input, isLoading, started>>

\* the rest of handleSubmit, from the settlement of the awaited call to the end
Resume(c, o) ==
    /\ state_messages' = Append(state_messages, Message("assistant", SettledContent(o)))
    /\ state_isLoading' = FALSE
    /\ calls' = calls \ {c}
    /\ replies' = [replies EXCEPT ![c.id] = @ + 1]
    /\ last' = Step("settle", FALSE, o)
    /\ UNCHANGED <<apiToken, state_input, input, isLoading, started>>

Settle == \E c \in calls, o \in Outcomes : Resume(c, o)

\* React renders App again: the new closure captures the cells
Render ==
    /\ <<input, isLoading>> # <<state_input, state_isLoading>>
    /\ input' = state_input
    /\ isLoading' = state_isLoading
    /\ last' = Step("render", FALSE, NoOutcome)
    /\ UNCHANGED <<apiToken, state_messages, state_input, state_isLoading, calls, replies,
                   started>>

Next == Submit \/ KeyDown \/ Edit \/ Settle \/ Render

Spec == Init /\ [][Next]_vars

\* The specification for progress: every started call settles and every update
\* is rendered.  Progress does not depend on the texts, so the textarea delivers
\* the empty text and one padded text.
FairInputs == {<<>>, <<" ", "a", " ">>}
FairEdit == EditTo(FairInputs)
FairNext == Submit \/ KeyDown \/ FairEdit \/ Settle \/ Render
FairSpec == Init /\ [][FairNext]_vars /\ WF_vars(Settle) /\ WF_vars(Render)

\* the spec's vocabulary
Transcript == state_messages
RequestState == IF state_isLoading THEN "pending" ELSE "idle"

\* ------------------------------------------------------------ properties
IsPrefix(s, t) == Len(s) <= Len(t) /\ SubSeq(t, 1, Len(s)) = s
CountRole(ms, role) == Cardinality({i \in 1..Len(ms) : ms[i].role = role})
\* the step is a run of handleSubmit's synchronous part
SubmitStep == last'.op \in {"submit", "enter"}
\* the step is the settlement of a call
SettleStep == last'.op = "settle"
NoOp == UNCHANGED <<state_messages, state_isLoading, calls>>

\* C1: every submit with a non-empty trimmed prompt made while RequestState = idle
\* appends exactly one user entry (the trimmed prompt) in that step, and every
\* accepted submission has exactly one assistant entry once its call has settled
\* and none before: never zero, never two.
C1_OneUserOneAssistant ==
    [][/\ (SubmitStep /\ Trim(input) # <<>> /\ RequestState = "idle") =>
            /\ IsPrefix(Append(Transcript, Message("user", Trim(input))), Transcript')
            /\ CountRole(Transcript', "user") = CountRole(Transcript, "user") + 1
       /\ \A i \in 1..Len(replies') :
            replies'[i] = (IF \E c \in calls' : c.id = i THEN 0 ELSE 1)
       /\ CountRole(Transcript', "assistant") = Len(replies') - Cardinality(calls')
      ]_vars

\* C2: at most one capability call is in flight in every reachable state.
C2_AtMostOneCallInFlight == Cardinality(calls) <= 1

\* C3: a submit made while RequestState = pending changes neither the transcript
\* nor RequestState and starts no call, whatever the prompt.
C3_SubmitWhilePendingIsNoOp ==
    [][(SubmitStep /\ RequestState = "pending") => NoOp]_vars

\* C4: a submit whose prompt is empty or only whitespace changes neither the
\* transcript nor RequestState and starts no call, in every state.
C4_EmptyPromptIsNoOp ==
    [][(SubmitStep /\ Trim(input) = <<>>) => (NoOp /\ ~last'.accepted)]_vars

\* a whitespace-only prompt was submitted while a call was in flight and after
\* an exchange had completed
C4_Witness ==
    /\ last.op \in {"submit", "enter"} /\ ~last.accepted
    /\ input # <<>> /\ Trim(input) = <<>>
    /\ Len(Transcript) >= 2

\* C5: every settlement, success or failure, leaves RequestState = idle; when
\* every started call settles and every update is rendered, a pending state is
\* always followed by an idle one, and by one in which the guard of handleSubmit
\* sees idle, so that a non-empty submit is accepted again.
C5_PendingReturnsToIdle ==
    /\ [][SettleStep => RequestState' = "idle"]_vars
    /\ (RequestState = "pending") ~> (RequestState = "idle")
    /\ (RequestState = "pending") ~> (RequestState = "idle" /\ ~isLoading)

\* a call has just failed while the controller was pending, and it is idle
C5_Witness ==
    /\ last.op = "settle" /\ last.wasLoading
    /\ last.outcome.kind = "reject"
    /\ RequestState = "idle"

\* the credential is absent, or is the placeholder
CredentialUnset == apiToken.t = "undefined" \/ apiToken = JsString(PLACEHOLDER_TOKEN)
TOKEN_ERROR_ENTRY == Message("assistant", ERROR_PREFIX \o TOKEN_MISSING_MESSAGE)

\* C6: with the credential absent or equal to the placeholder, an accepted
\* submit(p) starts no call, appends the user entry p and then exactly one
\* assistant entry "Error: Please set your Hugging Face API token in the .env
\* file", and leaves RequestState = idle.
C6_UnsetCredentialFailsBeforeCall ==
    [][(SubmitStep /\ last'.accepted /\ CredentialUnset) =>
          /\ calls' = calls
          /\ Transcript' = Transcript \o <<Message("user", Trim(input)), TOKEN_ERROR_ENTRY>>
          /\ RequestState' = "idle"
      ]_vars

\* a submit was accepted under the placeholder credential
C6_Witness ==
    /\ last.op \in {"submit", "enter"} /\ last.accepted
    /\ apiToken = JsString(PLACEHOLDER_TOKEN)
    /\ Transcript[Len(Transcript)] = TOKEN_ERROR_ENTRY

\* the step resumes from a call rejected with an Error
RejectedWithError(step) ==
    step.op = "settle" /\ step.outcome.kind = "reject" /\ step.outcome.error.isError

Resolved(step) == step.op = "settle" /\ step.outcome.kind = "resolve"
HasText(result) == result.t = "object" /\ result.generated_text.t = "string"
StartsWith(s, p) == IsPrefix(p, s)

\* C8 as stated: every resolved value without a usable string generated_text,
\* an absent payload included, yields the entry "No response generated".
C8_NoTextYieldsPlaceholder ==
    [][(Resolved(last') /\ ~HasText(last'.outcome.result)) =>
          Transcript' = Append(Transcript, Message("assistant", NO_RESPONSE))
      ]_vars

\* C8 amended: a resolved object whose generated_text is missing or is not a
\* string yields the entry "No response generated", never one prefixed
\* "Error: "; an absent payload makes the read of generated_text throw, and
\* yields the entry "Error: " + the TypeError's message.
C8_MissingFieldYieldsPlaceholder ==
    [][Resolved(last') =>
          /\ (last'.outcome.result.t = "object" /\ ~HasText(last'.outcome.result)) =>
                /\ Transcript' = Append(Transcript, Message("assistant", NO_RESPONSE))
                /\ ~StartsWith(Transcript'[Len(Transcript')].content, ERROR_PREFIX)
          /\ last'.outcome.result.t = "undefined" =>
                Transcript' = Append(Transcript,
                    Message("assistant", ERROR_PREFIX \o last'.outcome.error.message))
      ]_vars

\* a call resolved with an object whose generated_text is not a string
C8_Witness ==
    /\ Resolved(last)
    /\ last.outcome.result.t = "object"
    /\ last.outcome.result.generated_text.t = "number"
    /\ Transcript[Len(Transcript)] = Message("assistant", NO_RESPONSE)

\* C9: a call resolved with generated_text a string s appends the assistant
\* entry with content exactly s, as the last entry of the transcript.
C9_TextIsAppendedUnmodified ==
    [][(Resolved(last') /\ HasText(last'.outcome.result)) =>
          /\ Transcript' = Append(Transcript,
                 Message("assistant", last'.outcome.result.generated_text.v))
          /\ Transcript'[Len(Transcript')].content = last'.outcome.result.generated_text.v
      ]_vars

\* a call resolved with generated_text "Once" and the entry ends the transcript
C9_Witness ==
    /\ Resolved(last) /\ HasText(last.outcome.result)
    /\ Transcript[Len(Transcript)] = Message("assistant", STORY)
    /\ Transcript[Len(Transcript) - 1].role = "user"

\* C10: the transcript before a step is a prefix of the transcript after it.
C10_TranscriptIsAppendOnly == [][IsPrefix(Transcript, Transcript')]_vars

\* two exchanges are complete
C10_Witness ==
    /\ Len(Transcript) >= 4
    /\ last.op = "settle"

\* C11: the call made for an accepted submit(p) carries the one-element
\* message list [{role: user, content: trimmed p}], whatever the transcript
\* holds, the model identifier, and max_new_tokens = 500, temperature = 0.7,
\* top_p = 0.95; no other step makes a call.
C11_RequestIsTheNewPromptOnly ==
    [][/\ started' # started =>
            /\ SubmitStep /\ last'.accepted
            /\ \E c \in calls' \ calls :
                  /\ calls' = calls \cup {c}
                  /\ c.messages = <<[role |-> "user", content |-> Trim(input)]>>
                  /\ c.model = MODEL_ID
                  /\ c.parameters = [max_new_tokens |-> 500, temperature |-> 70,
                                     top_p |-> 95]
       /\ calls' \subseteq calls \/ started' # started
      ]_vars

\* a call was made for a padded prompt while the transcript held an exchange
C11_Witness ==
    /\ last.op \in {"submit", "enter"} /\ last.accepted
    /\ input = <<" ", "a", " ">>
    /\ Len(Transcript) >= 3
    /\ \E c \in calls : c.id = Len(replies) /\ c.messages = <<Message("user", <<"a">>)>>

\* the credential passes the test of the try block
CredentialValid ==
    apiToken.t = "string" /\ apiToken.v # <<>> /\ apiToken.v # PLACEHOLDER_TOKEN

\* C12: the calls made never outnumber the accepted submissions; with a valid
\* credential each accepted submission has made exactly one call, and every
\* call made is either in flight or has produced its one assistant entry: a
\* failed call is not made again.
C12_NoRetries ==
    /\ started <= Len(replies)
    /\ CredentialValid =>
          /\ started = Len(replies)
          /\ started = Cardinality(calls) + CountRole(Transcript, "assistant")

\* two calls were made, the second has just failed, and none is in flight
C12_Witness ==
    /\ last.op = "settle" /\ last.outcome.kind = "reject"
    /\ started = 2 /\ Len(replies) = 2
    /\ calls = {}

\* the step is a user action: a submit, a key press or an edit of the input
UserStep == last'.op \in {"submit", "enter", "shiftEnter", "key", "edit"}

\* C13: only the settlement of a call moves RequestState from pending to idle;
\* no user action removes a call in flight, and a settlement removes exactly
\* the settled call and appends its entry, so no result is discarded.
C13_OnlySettlementLeavesPending ==
    [][/\ (RequestState = "pending" /\ RequestState' = "idle") => SettleStep
       /\ UserStep => (calls \subseteq calls' /\ (RequestState = "pending" => RequestState' = "pending"))
       /\ SettleStep =>
            /\ \E c \in calls : calls' = calls \ {c}
            /\ Len(Transcript') = Len(Transcript) + 1
      ]_vars

\* a submit was made and rejected while a call was in flight, and it still is
C13_Witness ==
    /\ last.op \in {"submit", "enter"} /\ ~last.accepted /\ last.wasLoading
    /\ RequestState = "pending"
    /\ calls # {}

\* C14: the entries at odd positions have role user and those at even positions
\* role assistant; whenever RequestState = idle the transcript length is even,
\* and whenever a call is in flight the last entry is the user entry of that
\* call.
C14_StrictAlternation ==
    /\ \A i \in 1..Len(Transcript) :
          Transcript[i].role = (IF i % 2 = 1 THEN "user" ELSE "assistant")
    /\ RequestState = "idle" => Len(Transcript) % 2 = 0
    /\ \A c \in calls : Transcript[Len(Transcript)] = c.messages[1]

\* what the submit affordance does in a state, cell by cell
SubmitEffect ==
    IF Trim(input) = <<>> \/ isLoading
    THEN UNCHANGED <<state_messages, state_isLoading, state_input, calls, started>>
    ELSE /\ state_input' = <<>>
         /\ IF apiToken.t = "undefined" \/ apiToken.v = <<>> \/ apiToken.v = PLACEHOLDER_TOKEN
            THEN /\ Transcript' = Transcript \o <<Message("user", Trim(input)), TOKEN_ERROR_ENTRY>>
                 /\ RequestState' = "idle"
                 /\ UNCHANGED <<calls, started>>
            ELSE /\ Transcript' = Append(Transcript, Message("user", Trim(input)))
                 /\ RequestState' = "pending"
                 /\ started' = started + 1
                 /\ \E c \in calls' \ calls :
                       /\ calls' = calls \cup {c}
                       /\ c.messages = <<Message("user", Trim(input))>>

\* C15: a plain Enter key press has the effect of the submit affordance on the
\* transcript, RequestState, the input text and the calls, and is a no-op when
\* the trimmed input is empty or a request is pending; an Enter press with
\* Shift held changes neither the transcript nor RequestState and makes no call.
C15_KeyboardContract ==
    [][/\ last'.op \in {"submit", "enter"} => SubmitEffect
       /\ (last'.op = "enter" /\ (Trim(input) = <<>> \/ RequestState = "pending")) =>
             UNCHANGED <<state_messages, state_isLoading, state_input, calls, started>>
       /\ last'.op = "shiftEnter" =>
             UNCHANGED <<state_messages, state_isLoading, calls, started>>
      ]_vars

\* The part of C15 that holds of the code: Enter acts as the submit affordance
\* does in the same state (a no-op when the trimmed input is empty or the
\* closure's isLoading is true), and Shift+Enter is a no-op.
C15_EnterActsAsSubmit ==
    [][/\ last'.op \in {"submit", "enter"} => SubmitEffect
       /\ last'.op = "shiftEnter" =>
             UNCHANGED <<state_messages, state_isLoading, calls, started>>
      ]_vars

\* the closure is the one of a render of the current cells
Rendered == input = state_input /\ isLoading = state_isLoading

\* C16: in every rendered state the submit button is enabled exactly when
\* RequestState = idle and the trimmed input is non-empty, and the textarea is
\* disabled and the busy indicator shown exactly when RequestState = pending;
\* a submit made while the button is enabled is accepted.
C16_AffordancesFollowState ==
    [][/\ Rendered' =>
            /\ ~submitDisabled' <=> (RequestState' = "idle" /\ Trim(state_input') # <<>>)
            /\ textareaDisabled' <=> RequestState' = "pending"
            /\ busyIndicatorShown' <=> RequestState' = "pending"
       /\ (last'.op = "submit" /\ ~submitDisabled) =>
            (last'.accepted /\ Len(Transcript') > Len(Transcript))
      ]_vars

\* the pending state has been rendered with a non-empty input: the button and
\* the textarea are disabled, the indicator is shown
C16_Witness ==
    /\ last.op = "render"
    /\ RequestState = "pending"
    /\ Trim(input) # <<>>
    /\ submitDisabled /\ textareaDisabled /\ busyIndicatorShown

\* C17: an accepted submit sets the input text to the empty string in the step
\* that appends the user entry (and, when a call is made, enters pending); a
\* rejected submit and the settlement of a call leave the input text unchanged.
C17_InputResetOnAcceptOnly ==
    [][/\ (SubmitStep /\ last'.accepted) =>
            /\ state_input' = <<>>
            /\ IsPrefix(Append(Transcript, Message("user", Trim(input))), Transcript')
            /\ started' # started => RequestState' = "pending"
       /\ (SubmitStep /\ ~last'.accepted) => state_input' = state_input
       /\ SettleStep => state_input' = state_input
      ]_vars

\* a submit of the padded text was accepted: the input text is empty, the user
\* entry ends the transcript and the controller is pending
C17_Witness ==
    /\ last.op \in {"submit", "enter"} /\ last.accepted
    /\ input = <<" ", "a", " ">>
    /\ state_input = <<>>
    /\ Transcript[Len(Transcript)] = Message("user", <<"a">>)
    /\ RequestState = "pending"

\* the step resumes from a failure: a rejected call, or a resolved call whose
\* absent payload made the read of generated_text throw
FailedStep(step) ==
    /\ step.op = "settle"
    /\ step.outcome.kind = "reject" \/ step.outcome.result.t = "undefined"

\* C18: a call rejected with a value that is not an Error appends the entry
\* "Error: Failed to get response"; every entry appended on a failure path
\* starts with "Error: ", and RequestState is idle afterwards.
C18_NonErrorRejectionHasFallbackText ==
    [][/\ (SettleStep /\ last'.outcome.kind = "reject" /\ ~last'.outcome.error.isError) =>
            Transcript' = Append(Transcript,
                Message("assistant", ERROR_PREFIX \o FAILED_TO_GET_RESPONSE))
       /\ FailedStep(last') =>
            /\ Len(Transcript') = Len(Transcript) + 1
            /\ Transcript'[Len(Transcript')].role = "assistant"
            /\ StartsWith(Transcript'[Len(Transcript')].content, ERROR_PREFIX)
            /\ RequestState' = "idle"
       /\ (SubmitStep /\ last'.accepted /\ started' = started) =>
            /\ StartsWith(Transcript'[Len(Transcript')].content, ERROR_PREFIX)
            /\ RequestState' = "idle"
      ]_vars

\* a call was rejected with a value that is not an Error
C18_Witness ==
    /\ last.op = "settle" /\ last.outcome.kind = "reject" /\ ~last.outcome.error.isError
    /\ Transcript[Len(Transcript)] =
           Message("assistant", ERROR_PREFIX \o FAILED_TO_GET_RESPONSE)
    /\ RequestState = "idle"
====
